---- MODULE Spec2Model ----
(***************************************************************************)
(* Model of the fn_macro crate (src/src/lib.rs): the derive macro `Fn`     *)
(* (derive_fn_mut / find_attr / impl_fn), the three data-holding attribute *)
(* macros fn_args, fn_body and fn_output, and the three trait methods the  *)
(* derive emits (call_once, call_mut, call).                               *)
(*                                                                         *)
(* A token stream is a sequence of token trees.  A token tree is a record  *)
(* [k, s, ts]: k is the kind ("ident", "punct", "literal", "group"), s the *)
(* text (for a group: its opening delimiter) and ts the stream inside a    *)
(* group (<<>> for the other kinds).  Multi-character punctuation is a     *)
(* run of single-character punct tokens, as in proc_macro.                 *)
(***************************************************************************)
EXTENDS Integers, Sequences, FiniteSets, TLC

VARIABLES
    ast,        \* the DeriveInput handed to derive_fn_mut: [ident, attrs]
    written,    \* what the user wrote inside fn_args: [types, trailing]
    item,       \* the annotated item as the attribute macros see it
    applied,    \* the attribute macros expanded so far, in order
    pc,         \* "ready" | "done" | "panicked": derive_fn_mut's outcome
    generated,  \* the token stream derive_fn_mut returned (<<>> if none)
    panic,      \* the panic message of derive_fn_mut (<<>> if none)
    result      \* the last invocation of the derived type (NoCall if none)

vars == <<ast, written, item, applied, pc, generated, panic, result>>

\* ------------------------------------------------------------------ bounds

\* Longest list of argument types written in fn_args.
MaxArgs == 2

\* Most attribute-macro expansions applied to the item.
MaxApply == 2

\* The values an argument takes at a call.
Vals == {7, 9}

\* ------------------------------------------------------------------ tokens

Ident(s) == [k |-> "ident", s |-> s, ts |-> <<>>]
Punct(s) == [k |-> "punct", s |-> s, ts |-> <<>>]
Literal(s) == [k |-> "literal", s |-> s, ts |-> <<>>]
Group(d, ts) == [k |-> "group", s |-> d, ts |-> ts]

Comma == Punct(",")

\* ------------------------------------------------------------------ inputs

\* Argument types a user may list: f64 (one token), &str (two) and
\* Vec<f64> (four).
TyF64 == <<Ident("f64")>>
TyRefStr == <<Punct("&"), Ident("str")>>
TyVecF64 == <<Ident("Vec"), Punct("<"), Ident("f64"), Punct(">")>>
ArgTypes == {TyF64, TyRefStr, TyVecF64}

\* Output types and bodies a user may give.
OutputChoices == {<<Ident("String")>>, TyVecF64}
BodyChoices ==
    { <<Ident("args"), Punct("."), Literal("0")>>,
      <<Ident("self"), Punct("."), Literal("0"), Punct("+"), Ident("args"),
        Punct("."), Literal("0")>> }

\* The token stream of a comma-separated list of types.
RECURSIVE JoinTypes(_)
JoinTypes(types) ==
    IF Len(types) = 0 THEN <<>>
    ELSE IF Len(types) = 1 THEN types[1]
    ELSE types[1] \o <<Comma>> \o JoinTypes(Tail(types))

WrittenTokens(w) ==
    JoinTypes(w.types) \o (IF w.trailing THEN <<Comma>> ELSE <<>>)

\* Type lists of at most MaxArgs types; a trailing comma needs a type.
TypeLists == UNION { [1..n -> ArgTypes] : n \in 0..MaxArgs }
WrittenChoices ==
    { [types |-> t, trailing |-> b] :
        t \in TypeLists, b \in BOOLEAN } \ { [types |-> <<>>, trailing |-> TRUE] }

\* An attribute: its path, the form of its meta and, for a list, the
\* delimiter and the tokens inside it.
Attr(name, form, delim, tokens) ==
    [name |-> name, form |-> form, delim |-> delim, tokens |-> tokens]

NoWritten == [types |-> <<>>, trailing |-> FALSE]

\* The forms an attribute appears in besides the list form:
\* #[a] (path) and #[a = "x"] (name-value).
OtherForms == {"path", "namevalue"}

\* fn_args as given to the derive (absent, in another form, or a list),
\* with what the user wrote in it.
ArgsChoices ==
    {[attrs |-> <<>>, written |-> NoWritten]}
    \cup { [attrs |-> <<Attr("fn_args", f, "", <<>>)>>, written |-> NoWritten] :
             f \in OtherForms }
    \cup { [attrs |-> <<Attr("fn_args", "list", "(", WrittenTokens(w))>>,
            written |-> w] : w \in WrittenChoices }

BodyAttrChoices ==
    {<<>>, <<Attr("fn_body", "path", "", <<>>)>>}
    \cup { <<Attr("fn_body", "list", "{", b)>> : b \in BodyChoices }

OutputAttrChoices ==
    {<<>>, <<Attr("fn_output", "namevalue", "", <<>>)>>}
    \cup { <<Attr("fn_output", "list", "(", o)>> : o \in OutputChoices }

\* The item the attributes annotate: struct Test(f64);
StructItem(name) ==
    <<Ident("struct"), Ident(name), Group("(", TyF64), Punct(";")>>

\* An attribute the derive does not look for: #[doc = "..."]
DocAttr == Attr("doc", "namevalue", "", <<>>)

\* ------------------------------------------------------------------ find_attr

\* attr.path().is_ident(wanted_attribute)
is_ident(attr, wanted_attribute) == attr.name = wanted_attribute

\* The positions find's closure accepts.
Matches(attributes, wanted_attribute) ==
    { i \in 1..Len(attributes) : is_ident(attributes[i], wanted_attribute) }

\* iter().find(..) is Some
Found(attributes, wanted_attribute) == Matches(attributes, wanted_attribute) # {}

\* The message given to expect: a string literal, not a format string, so
\* the braces and the name between them are text.  It is kept as the
\* fragments around the placeholder so that a message can be searched for
\* an attribute's name.
ExpectMessage(wanted_attribute) ==
    <<"No attribute of type ", "{wanted_attribute}", " given">>

\* find_attr where find(..) is Some: the first attribute of that name.
find_attr(attributes, wanted_attribute) ==
    LET m == Matches(attributes, wanted_attribute)
    IN  attributes[CHOOSE i \in m : \A j \in m : i <= j]

\* ------------------------------------------------------------------ impl_fn

\* meta.require_list() is Ok exactly for the list form.
IsList(attr) == attr.form = "list"

\* A require_list that drops the last token of the list.
require_list_dropping(attr) ==
    IF Len(attr.tokens) = 0 THEN <<>>
    ELSE SubSeq(attr.tokens, 1, Len(attr.tokens) - 1)

\* The tokens field of the MetaList require_list() returns.
require_list(attr) == attr.tokens

\* The panic of unwrap() on require_list()'s Err.
UnwrapMessage == <<"called Result::unwrap() on an Err value">>

\* usize::div_ceil
div_ceil(a, b) == (a + b - 1) \div b

\* arg_tokens.clone().into_iter().count().div_ceil(2)
ArgSize(arg_tokens) == div_ceil(Len(arg_tokens), 2)

\* format!("args.{index}"), as the lexemes of the string.
FormatArg(index) == <<"args", ".", ToString(index)>>

\* (0..arg_size).map(format).collect::<Vec<_>>().join(",")
RECURSIVE JoinArgs(_, _)
JoinArgs(from, arg_size) ==
    IF from >= arg_size THEN <<>>
    ELSE IF from = arg_size - 1 THEN FormatArg(from)
    ELSE FormatArg(from) \o <<",">> \o JoinArgs(from + 1, arg_size)

\* str::parse::<proc_macro2::TokenStream>() of one lexeme.
ParseLexeme(x) ==
    IF x = "args" THEN Ident(x)
    ELSE IF x \in {".", ","} THEN Punct(x)
    ELSE Literal(x)

\* The local `args` of impl_fn.
ForwardArgs(arg_size) ==
    LET lex == JoinArgs(0, arg_size)
    IN  [i \in 1..Len(lex) |-> ParseLexeme(lex[i])]

\* extern "rust-call" fn <method>(<receiver>, args: (#arg_tokens))
\*     -> Self::Output { <block> }
FnItem(method, receiver, arg_tokens, block) ==
    <<Ident("extern"), Literal("rust-call"), Ident("fn"), Ident(method),
      Group("(", receiver \o <<Comma, Ident("args"), Punct(":"),
                               Group("(", arg_tokens)>>),
      Punct("-"), Punct(">"), Ident("Self"), Punct(":"), Punct(":"),
      Ident("Output"), Group("{", block)>>

\* impl <trait><(#arg_tokens)> for #name { <items> }
ImplBlock(trait, arg_tokens, name, items) ==
    <<Ident("impl"), Ident(trait), Punct("<"), Group("(", arg_tokens),
      Punct(">"), Ident("for"), Ident(name), Group("{", items)>>

\* self(#args)
SelfCall(args) == <<Ident("self"), Group("(", args)>>

impl_FnOnce(name, arg_tokens, args, output_tokens) ==
    ImplBlock("FnOnce", arg_tokens, name,
        <<Ident("type"), Ident("Output"), Punct("=")>> \o output_tokens
        \o <<Punct(";")>>
        \o FnItem("call_once", <<Ident("self")>>, arg_tokens, SelfCall(args)))

impl_FnMut(name, arg_tokens, args) ==
    ImplBlock("FnMut", arg_tokens, name,
        FnItem("call_mut", <<Punct("&"), Ident("mut"), Ident("self")>>,
               arg_tokens, SelfCall(args)))

impl_Fn(name, arg_tokens, body_tokens) ==
    ImplBlock("Fn", arg_tokens, name,
        FnItem("call", <<Punct("&"), Ident("self")>>, arg_tokens, body_tokens))

\* A template that emits the Fn impl before the FnMut impl.
quote_swapped(name, arg_tokens, args, body_tokens, output_tokens) ==
    impl_FnOnce(name, arg_tokens, args, output_tokens)
    \o impl_Fn(name, arg_tokens, body_tokens)
    \o impl_FnMut(name, arg_tokens, args)

\* The quote! template of impl_fn.
quote_generated(name, arg_tokens, args, body_tokens, output_tokens) ==
    impl_FnOnce(name, arg_tokens, args, output_tokens)
    \o impl_FnMut(name, arg_tokens, args)
    \o impl_Fn(name, arg_tokens, body_tokens)

Returned(tokens) == [tokens |-> tokens, panic |-> <<>>]
Panicked(message) == [tokens |-> <<>>, panic |-> message]

\* impl_fn, statement by statement: each expect and unwrap ends it.
impl_fn(a) ==
    IF ~Found(a.attrs, "fn_args") THEN Panicked(ExpectMessage("fn_args"))
    ELSE
    LET args_attr == find_attr(a.attrs, "fn_args") IN
    IF ~IsList(args_attr) THEN Panicked(UnwrapMessage)
    ELSE
    LET arg_tokens == require_list(args_attr)
        arg_size == ArgSize(arg_tokens)
        args == ForwardArgs(arg_size)
    IN
    IF ~Found(a.attrs, "fn_body") THEN Panicked(ExpectMessage("fn_body"))
    ELSE
    LET body_attr == find_attr(a.attrs, "fn_body") IN
    IF ~IsList(body_attr) THEN Panicked(UnwrapMessage)
    ELSE
    LET body_tokens == require_list(body_attr) IN
    IF ~Found(a.attrs, "fn_output") THEN Panicked(ExpectMessage("fn_output"))
    ELSE
    LET output_attr == find_attr(a.attrs, "fn_output") IN
    IF ~IsList(output_attr) THEN Panicked(UnwrapMessage)
    ELSE
    LET output_tokens == require_list(output_attr) IN
    Returned(quote_generated(a.ident, arg_tokens, args, body_tokens,
                             output_tokens))

\* derive_fn_mut: the input always parses as a DeriveInput (the compiler
\* hands a derive macro a struct, enum or union), then impl_fn.
derive_fn_mut(a) == impl_fn(a)

\* ------------------------------------------------------------------ attribute macros

\* An attribute macro that returns its argument instead of the item.
fn_args_returning_attr(attr, it) == attr

fn_args(attr, it) == it
fn_body(attr, it) == it
fn_output(attr, it) == it

\* ------------------------------------------------------------------ generated code

\* The positions where an impl item starts in a token stream.
ImplStarts(g) == { i \in 1..Len(g) : g[i] = Ident("impl") }

\* The n-th impl item of g, from its `impl` to the token before the next.
Impl(g, n) ==
    LET st == ImplStarts(g)
        b == CHOOSE i \in st : Cardinality({ j \in st : j < i }) = n - 1
        later == { j \in st : j > b }
        e == IF later = {} THEN Len(g) + 1
             ELSE CHOOSE j \in later : \A x \in later : j <= x
    IN  SubSeq(g, b, e - 1)

\* The parts of an impl item: impl Trait < (generic) > for Name { items }
TraitOf(b) == b[2].s
GenericArg(b) == b[4]
NameOf(b) == b[7].s
ItemsOf(b) == b[8].ts

\* The fn item that ends an impl's items, and what comes before it.
FnLen == Len(FnItem("", <<>>, <<>>, <<>>))
FnOf(b) == SubSeq(ItemsOf(b), Len(ItemsOf(b)) - FnLen + 1, Len(ItemsOf(b)))
BeforeFn(b) == SubSeq(ItemsOf(b), 1, Len(ItemsOf(b)) - FnLen)

\* The parts of a fn item.
MethodOf(f) == f[4].s
ParamsOf(f) == f[5].ts
BlockOf(f) == f[12].ts

\* The first position of token t in ts (Len(ts) + 1 if there is none).
FirstIndex(ts, t) ==
    IF \E i \in 1..Len(ts) : ts[i] = t
    THEN CHOOSE i \in 1..Len(ts) : ts[i] = t /\ \A j \in 1..(i - 1) : ts[j] # t
    ELSE Len(ts) + 1

\* The receiver of a fn item: its parameters up to the first comma.
ReceiverOf(f) == SubSeq(ParamsOf(f), 1, FirstIndex(ParamsOf(f), Comma) - 1)

\* The type of the args parameter: what follows `args :`.
ArgsParamType(f) == ParamsOf(f)[Len(ParamsOf(f))]

\* The associated types an impl declares: the tokens between each
\* `type Output =` and the `;` that ends it.
OutputDecls(b) ==
    LET pre == BeforeFn(b)
    IN  IF Len(pre) >= 4 /\ pre[1] = Ident("type") /\ pre[2] = Ident("Output")
           /\ pre[3] = Punct("=") /\ pre[Len(pre)] = Punct(";")
        THEN <<SubSeq(pre, 4, Len(pre) - 1)>>
        ELSE <<>>

\* ------------------------------------------------------------------ the language

\* The segments of a token stream between its commas, commas inside
\* angle brackets not counting.
RECURSIVE SplitTop(_, _, _, _)
SplitTop(ts, i, depth, cur) ==
    IF i > Len(ts) THEN <<cur>>
    ELSE IF ts[i] = Comma /\ depth = 0
         THEN <<cur>> \o SplitTop(ts, i + 1, 0, <<>>)
    ELSE SplitTop(ts, i + 1,
                  IF ts[i] = Punct("<") THEN depth + 1
                  ELSE IF ts[i] = Punct(">") THEN depth - 1 ELSE depth,
                  Append(cur, ts[i]))

\* The type a parenthesised token stream denotes: () is the 0-tuple, (T)
\* is T itself and no tuple, (T,) and (T, U, ...) are tuples.
TupleType(ts) ==
    LET segs == SplitTop(ts, 1, 0, <<>>)
    IN  IF ts = <<>> THEN [tuple |-> TRUE, components |-> <<>>]
        ELSE IF Len(segs) = 1 THEN [tuple |-> FALSE, components |-> segs]
        ELSE IF segs[Len(segs)] = <<>>
             THEN [tuple |-> TRUE, components |-> SubSeq(segs, 1, Len(segs) - 1)]
        ELSE [tuple |-> TRUE, components |-> segs]

\* The index a literal token spells.
IndexOf(s, max) ==
    IF \E i \in 0..max : ToString(i) = s
    THEN CHOOSE i \in 0..max : ToString(i) = s
    ELSE -1

\* The indices i of the expressions args.i passed in a call self(...).
ForwardedIndices(call_args) ==
    [k \in 1..((Len(call_args) + 1) \div 4) |->
        IndexOf(call_args[4 * (k - 1) + 3].s, Len(call_args))]

\* The outcome of evaluating a body on an argument tuple, and the outcome
\* of code the compiler rejects.
Eval(body, t) == [ok |-> TRUE, body |-> body, args |-> t]
Rejected == [ok |-> FALSE, body |-> <<>>, args |-> <<>>]

\* Whether an impl's Args type is a tuple type that t is a value of.
Accepts(b, t) ==
    LET ty == TupleType(GenericArg(b).ts)
    IN  ty.tuple /\ Len(ty.components) = Len(t)

\* Fn::call as generated: the block of the third impl, on args = t.
call(g, t) ==
    IF Accepts(Impl(g, 3), t) THEN Eval(BlockOf(FnOf(Impl(g, 3))), t)
    ELSE Rejected

\* The block self(args.i, ...) on args = t: each args.i must be a field
\* of t, and the call resolves to Fn::call on the tuple of those fields.
Forward(g, b, t) ==
    LET idx == ForwardedIndices(BlockOf(FnOf(b))[2].ts)
    IN  IF ~Accepts(b, t) THEN Rejected
        ELSE IF \E k \in 1..Len(idx) : idx[k] < 0 \/ idx[k] >= Len(t)
             THEN Rejected
        ELSE call(g, [k \in 1..Len(idx) |-> t[idx[k] + 1]])

\* FnOnce::call_once and FnMut::call_mut as generated.
call_once(g, t) == Forward(g, Impl(g, 1), t)
call_mut(g, t) == Forward(g, Impl(g, 2), t)

NoCall == [via |-> "none", args |-> <<>>, value |-> Rejected]

\* ------------------------------------------------------------------ state machine

Init ==
    \E a \in ArgsChoices, b \in BodyAttrChoices, o \in OutputAttrChoices,
       rev \in BOOLEAN :
        /\ ast = [ident |-> "Test",
                  attrs |-> <<DocAttr>> \o
                            (IF rev THEN o \o b \o a.attrs
                             ELSE a.attrs \o b \o o)]
        /\ written = a.written
        /\ item = StructItem("Test")
        /\ applied = <<>>
        /\ pc = "ready"
        /\ generated = <<>>
        /\ panic = <<>>
        /\ result = NoCall

\* The compiler expands #[derive(Fn)]: derive_fn_mut runs to its end.
Derive ==
    /\ pc = "ready"
    /\ LET r == derive_fn_mut(ast)
       IN  /\ pc' = IF r.panic = <<>> THEN "done" ELSE "panicked"
           /\ generated' = r.tokens
           /\ panic' = r.panic
    /\ UNCHANGED <<ast, written, item, applied, result>>

\* The token streams an attribute macro may be given as its argument.
AttrArgs == OutputChoices

\* The compiler expands an attribute macro on the item.
ExpandFnArgs ==
    /\ Len(applied) < MaxApply
    /\ \E a \in AttrArgs : item' = fn_args(a, item)
    /\ applied' = Append(applied, "fn_args")
    /\ UNCHANGED <<ast, written, pc, generated, panic, result>>

ExpandFnBody ==
    /\ Len(applied) < MaxApply
    /\ \E a \in AttrArgs : item' = fn_body(a, item)
    /\ applied' = Append(applied, "fn_body")
    /\ UNCHANGED <<ast, written, pc, generated, panic, result>>

ExpandFnOutput ==
    /\ Len(applied) < MaxApply
    /\ \E a \in AttrArgs : item' = fn_output(a, item)
    /\ applied' = Append(applied, "fn_output")
    /\ UNCHANGED <<ast, written, pc, generated, panic, result>>

\* The argument tuples of the types the user listed.
ArgTuples == [1..Len(written.types) -> Vals]

\* The derived type is invoked through one of its three traits; a
\* behaviour follows one invocation (call_once consumes the value).
CallOnce ==
    /\ pc = "done"
    /\ result = NoCall
    /\ \E t \in ArgTuples :
        result' = [via |-> "call_once", args |-> t, value |-> call_once(generated, t)]
    /\ UNCHANGED <<ast, written, item, applied, pc, generated, panic>>

CallMut ==
    /\ pc = "done"
    /\ result = NoCall
    /\ \E t \in ArgTuples :
        result' = [via |-> "call_mut", args |-> t, value |-> call_mut(generated, t)]
    /\ UNCHANGED <<ast, written, item, applied, pc, generated, panic>>

Call ==
    /\ pc = "done"
    /\ result = NoCall
    /\ \E t \in ArgTuples :
        result' = [via |-> "call", args |-> t, value |-> call(generated, t)]
    /\ UNCHANGED <<ast, written, item, applied, pc, generated, panic>>

Next ==
    \/ Derive
    \/ ExpandFnArgs
    \/ ExpandFnBody
    \/ ExpandFnOutput
    \/ CallOnce
    \/ CallMut
    \/ Call

Spec == Init /\ [][Next]_vars

\* ------------------------------------------------------------------ properties

AttrNames == <<"fn_args", "fn_body", "fn_output">>

\* The attributes of that name on the derive input.
Given(name) == { ast.attrs[i] : i \in { j \in 1..Len(ast.attrs) : ast.attrs[j].name = name } }

\* Every one of the three attributes is on the input / is there as a list.
HasAll == \A i \in 1..3 : Given(AttrNames[i]) # {}
AllList == \A i \in 1..3 : \E a \in Given(AttrNames[i]) : a.form = "list"

\* The tokens the user put in the list-form attribute of that name.
ListTokens(name) == (CHOOSE a \in Given(name) : a.form = "list").tokens

\* The first attribute, in the order fn_args, fn_body, fn_output, that is
\* not on the input.
FirstMissing ==
    AttrNames[CHOOSE i \in 1..3 :
                /\ Given(AttrNames[i]) = {}
                /\ \A j \in 1..(i - 1) : Given(AttrNames[j]) # {}]

\* A message names an attribute when the name is one of its fragments.
NamesAttr(message, name) == \E i \in 1..Len(message) : message[i] = name

\* The argument list args.0, ..., args.{n-1}.
ExpectedForward(n) ==
    [i \in 1..(IF n = 0 THEN 0 ELSE 4 * n - 1) |->
        IF i % 4 = 1 THEN Ident("args")
        ELSE IF i % 4 = 2 THEN Punct(".")
        ELSE IF i % 4 = 3 THEN Literal(ToString(i \div 4))
        ELSE Comma]

\* How many times token t occurs in the items of the three impls.
Occurrences(g, t) ==
    Cardinality({ <<n, i>> \in (1..3) \X (1..Len(g)) :
                    /\ i <= Len(ItemsOf(Impl(g, n)))
                    /\ ItemsOf(Impl(g, n))[i] = t })

Methods == <<"call_once", "call_mut", "call">>
Traits == <<"FnOnce", "FnMut", "Fn">>
Receivers ==
    << <<Ident("self")>>,
       <<Punct("&"), Ident("mut"), Ident("self")>>,
       <<Punct("&"), Ident("self")>> >>

\* C1: when fn_args, fn_body and fn_output are all given in list form,
\* the derive returns exactly three impl items for the type's own
\* identifier, in the order FnOnce, FnMut, Fn, each with the generic
\* argument (fn_args tokens); Output is declared once, in the FnOnce impl,
\* as the fn_output tokens; call_once takes self, call_mut &mut self and
\* call &self.
C1_ThreeImpls ==
    (AllList /\ pc # "ready") =>
        /\ pc = "done"
        /\ Cardinality(ImplStarts(generated)) = 3
        /\ generated[1] = Ident("impl")
        /\ \A n \in 1..3 :
            LET b == Impl(generated, n) IN
            /\ Len(b) = 8
            /\ TraitOf(b) = Traits[n]
            /\ b[3] = Punct("<") /\ b[5] = Punct(">") /\ b[6] = Ident("for")
            /\ GenericArg(b) = Group("(", ListTokens("fn_args"))
            /\ b[7] = Ident(ast.ident)
            /\ b[8].k = "group" /\ b[8].s = "{"
            /\ FnOf(b)[3] = Ident("fn")
            /\ MethodOf(FnOf(b)) = Methods[n]
            /\ ReceiverOf(FnOf(b)) = Receivers[n]
            /\ OutputDecls(b) = IF n = 1 THEN <<ListTokens("fn_output")>> ELSE <<>>
        /\ Occurrences(generated, Ident("type")) = 1

\* C1's case: a derive that returned for a two-type argument list.
C1_Witness ==
    /\ pc = "done"
    /\ Len(written.types) = 2
    /\ Cardinality(ImplStarts(generated)) = 3

\* C2: invoked through call_once, call_mut or call on an argument tuple,
\* the derived type evaluates fn_body on that same tuple and returns its
\* result.
C2_SameResult ==
    result.via # "none" =>
        result.value = Eval(ListTokens("fn_body"), result.args)

\* C3: the call forwarded in call_once and in call_mut is
\* self(args.0, ..., args.{n-1}), n the number of types written in fn_args.
C3_ArityIsTypeCount ==
    pc = "done" =>
        \A n \in 1..2 :
            BlockOf(FnOf(Impl(generated, n))) =
                <<Ident("self"), Group("(", ExpectedForward(Len(written.types)))>>

\* C4: when an attribute named fn_args, one named fn_body and one named
\* fn_output are on the input, the derive returns tokens and does not
\* panic, whatever their form.
C4_NoPanicWhenGiven ==
    (HasAll /\ pc # "ready") => (pc = "done" /\ panic = <<>> /\ generated # <<>>)

\* C5: every occurrence of the argument list in the output is
\* token-for-token the fn_args tokens, the Output type the fn_output
\* tokens and the block of call the fn_body tokens.
C5_SplicedVerbatim ==
    pc = "done" =>
        /\ \A n \in 1..3 :
            /\ GenericArg(Impl(generated, n)).ts = ListTokens("fn_args")
            /\ ArgsParamType(FnOf(Impl(generated, n))) =
                   Group("(", ListTokens("fn_args"))
        /\ OutputDecls(Impl(generated, 1)) = <<ListTokens("fn_output")>>
        /\ BlockOf(FnOf(Impl(generated, 3))) = ListTokens("fn_body")

\* C5's case: a derive that returned for a non-empty argument list, the
\* longer body and the longer output type.
C5_Witness ==
    /\ pc = "done"
    /\ Len(ListTokens("fn_args")) > 1
    /\ Len(ListTokens("fn_body")) > 3
    /\ ListTokens("fn_output") = TyVecF64

\* C6: however many of fn_args, fn_body and fn_output have been expanded
\* on the item, and in whatever order, the item is as it was.
C6_ItemUnchanged ==
    applied # <<>> => item = StructItem(ast.ident)

\* C6's case: two different attribute macros expanded, fn_args among them.
C6_Witness ==
    /\ Len(applied) = 2
    /\ applied[1] # applied[2]
    /\ \E i \in 1..2 : applied[i] = "fn_args"

\* C7: when one of the three attributes is absent, the derive panics and
\* returns no tokens, and the panic message names the first absent one in
\* the order fn_args, fn_body, fn_output.
C7_PanicNamesFirstMissing ==
    (~HasAll /\ pc # "ready") =>
        /\ pc = "panicked"
        /\ generated = <<>>
        /\ NamesAttr(panic, FirstMissing)

\* C8: the argument type (fn_args tokens) of each impl and of each args
\* parameter is the tuple type of the types written in fn_args, in order.
C8_ArgsIsTuple ==
    pc = "done" =>
        \A n \in 1..3 :
            /\ TupleType(GenericArg(Impl(generated, n)).ts) =
                   [tuple |-> TRUE, components |-> written.types]
            /\ TupleType(ArgsParamType(FnOf(Impl(generated, n))).ts) =
                   [tuple |-> TRUE, components |-> written.types]

====
